---- MODULE Spec2Model ----
(***************************************************************************)
(* Model of groq-starficient-pipe.py: the Pipe adapter of Groq's           *)
(* OpenAI-compatible REST API.                                             *)
(*                                                                         *)
(* A Python str is held in the state as a TLA+ string and computed on as   *)
(* the sequence of its characters (Chars, Str), so that "." in s,          *)
(* s.split(".", 1), x in m and ", ".join(l) work character by character.   *)
(***************************************************************************)
EXTENDS Integers, Sequences, FiniteSets, TLC

\* ------------------------------------------------------------------------
\* Strings
\* ------------------------------------------------------------------------
\* Pipe._hardcoded_models(): the hand-curated fallback list, in source order.
_hardcoded_models ==
    << "allam-2-7b",
       "compound-beta",
       "compound-beta-mini",
       "deepseek-r1-distill-llama-70b",
       "gemma2-9b-it",
       "llama-3.1-8b-instant",
       "llama-3.3-70b-versatile",
       "llama3-70b-8192",
       "llama3-8b-8192",
       "openai/gpt-oss-20b",
       "openai/gpt-oss-120b",
       "meta-llama/llama-guard-4-12b",
       "meta-llama/llama-prompt-guard-2-22m",
       "meta-llama/llama-prompt-guard-2-86m",
       "meta-llama/llama-4-maverick-17b-128e-instruct",
       "meta-llama/llama-4-scout-17b-16e-instruct",
       "mistral-saba-24b",
       "moonshotai/kimi-k2-instruct",
       "qwen/qwen3-32b" >>

\* EXCLUDE_SUBSTRINGS = ("tts", "whisper")
EXCLUDE_SUBSTRINGS == <<"tts", "whisper">>

\* Request-body model strings offered to pipe().
BodyModels ==
    { "groq.llama3-8b-8192",
      "llama3-8b-8192",
      "a.b.c",
      "groq.llama-3.1-8b-instant",
      "unknown-model" }

\* Ids a GET /models response may list.
RemoteIds ==
    { "llama3-8b-8192",
      "b.c",
      "whisper-large-v3",
      "playai-tts" }

\* The characters of every string the adapter can hold: the strings above,
\* the model of demo_request, and what split(".", 1)[1] makes of them.
Chars ==
    "allam-2-7b" :> <<"a","l","l","a","m","-","2","-","7","b">>
    @@ "compound-beta" :> <<"c","o","m","p","o","u","n","d","-","b","e","t","a">>
    @@ "compound-beta-mini" :> <<"c","o","m","p","o","u","n","d","-","b","e","t","a","-","m","i","n","i">>
    @@ "deepseek-r1-distill-llama-70b" :> <<"d","e","e","p","s","e","e","k","-","r","1","-","d","i","s","t","i","l","l","-","l","l","a","m","a","-","7","0","b">>
    @@ "gemma2-9b-it" :> <<"g","e","m","m","a","2","-","9","b","-","i","t">>
    @@ "llama-3.1-8b-instant" :> <<"l","l","a","m","a","-","3",".","1","-","8","b","-","i","n","s","t","a","n","t">>
    @@ "llama-3.3-70b-versatile" :> <<"l","l","a","m","a","-","3",".","3","-","7","0","b","-","v","e","r","s","a","t","i","l","e">>
    @@ "llama3-70b-8192" :> <<"l","l","a","m","a","3","-","7","0","b","-","8","1","9","2">>
    @@ "llama3-8b-8192" :> <<"l","l","a","m","a","3","-","8","b","-","8","1","9","2">>
    @@ "openai/gpt-oss-20b" :> <<"o","p","e","n","a","i","/","g","p","t","-","o","s","s","-","2","0","b">>
    @@ "openai/gpt-oss-120b" :> <<"o","p","e","n","a","i","/","g","p","t","-","o","s","s","-","1","2","0","b">>
    @@ "meta-llama/llama-guard-4-12b" :> <<"m","e","t","a","-","l","l","a","m","a","/","l","l","a","m","a","-","g","u","a","r","d","-","4","-","1","2","b">>
    @@ "meta-llama/llama-prompt-guard-2-22m" :> <<"m","e","t","a","-","l","l","a","m","a","/","l","l","a","m","a","-","p","r","o","m","p","t","-","g","u","a","r","d","-","2","-","2","2","m">>
    @@ "meta-llama/llama-prompt-guard-2-86m" :> <<"m","e","t","a","-","l","l","a","m","a","/","l","l","a","m","a","-","p","r","o","m","p","t","-","g","u","a","r","d","-","2","-","8","6","m">>
    @@ "meta-llama/llama-4-maverick-17b-128e-instruct" :> <<"m","e","t","a","-","l","l","a","m","a","/","l","l","a","m","a","-","4","-","m","a","v","e","r","i","c","k","-","1","7","b","-","1","2","8","e","-","i","n","s","t","r","u","c","t">>
    @@ "meta-llama/llama-4-scout-17b-16e-instruct" :> <<"m","e","t","a","-","l","l","a","m","a","/","l","l","a","m","a","-","4","-","s","c","o","u","t","-","1","7","b","-","1","6","e","-","i","n","s","t","r","u","c","t">>
    @@ "mistral-saba-24b" :> <<"m","i","s","t","r","a","l","-","s","a","b","a","-","2","4","b">>
    @@ "moonshotai/kimi-k2-instruct" :> <<"m","o","o","n","s","h","o","t","a","i","/","k","i","m","i","-","k","2","-","i","n","s","t","r","u","c","t">>
    @@ "qwen/qwen3-32b" :> <<"q","w","e","n","/","q","w","e","n","3","-","3","2","b">>
    @@ "b.c" :> <<"b",".","c">>
    @@ "whisper-large-v3" :> <<"w","h","i","s","p","e","r","-","l","a","r","g","e","-","v","3">>
    @@ "playai-tts" :> <<"p","l","a","y","a","i","-","t","t","s">>
    @@ "groq.llama3-8b-8192" :> <<"g","r","o","q",".","l","l","a","m","a","3","-","8","b","-","8","1","9","2">>
    @@ "a.b.c" :> <<"a",".","b",".","c">>
    @@ "groq.llama-3.1-8b-instant" :> <<"g","r","o","q",".","l","l","a","m","a","-","3",".","1","-","8","b","-","i","n","s","t","a","n","t">>
    @@ "unknown-model" :> <<"u","n","k","n","o","w","n","-","m","o","d","e","l">>
    @@ "groq_new.moonshotai/kimi-k2-instruct" :> <<"g","r","o","q","_","n","e","w",".","m","o","o","n","s","h","o","t","a","i","/","k","i","m","i","-","k","2","-","i","n","s","t","r","u","c","t">>
    @@ "tts" :> <<"t","t","s">>
    @@ "whisper" :> <<"w","h","i","s","p","e","r">>
    @@ "1-8b-instant" :> <<"1","-","8","b","-","i","n","s","t","a","n","t">>
    @@ "c" :> <<"c">>

\* The str with the characters cs.
Str(cs) == CHOOSE s \in DOMAIN Chars : Chars[s] = cs

\* Longest "data" array of a GET /models response.
MaxRemote == 2

\* Cap on the GET /models requests counted in one behaviour.
MaxGets == 3

\* ------------------------------------------------------------------------
\* Python values
\* ------------------------------------------------------------------------
\* Optional[List[str]]: None is distinct from the empty list.
None == [isNone |-> TRUE, value |-> <<>>]

Some(l) == [isNone |-> FALSE, value |-> l]

\* body["stream"] values: True, False, 1, 0.
PyTrue == [type |-> "bool", val |-> 1]

PyFalse == [type |-> "bool", val |-> 0]

PyOne == [type |-> "int", val |-> 1]

PyZero == [type |-> "int", val |-> 0]

StreamValues == {PyTrue, PyFalse, PyOne, PyZero}

\* bool(v), and the truth test of "x if v else y".
bool(v) == v.val # 0

\* The elements of the list s.
Range(s) == {s[i] : i \in 1..Len(s)}

\* str.__contains__: x occurs in m starting at some position.
OccursAt(m, x, i) ==
    /\ i + Len(x) - 1 <= Len(m)
    /\ \A k \in 1..Len(x) : m[i + k - 1] = x[k]

StrContains(m, x) == \E i \in 1..(Len(m) + 1) : OccursAt(m, x, i)

\* any(x in m for x in EXCLUDE_SUBSTRINGS)
IsExcluded(m) ==
    \E k \in 1..Len(EXCLUDE_SUBSTRINGS) :
        StrContains(Chars[m], Chars[EXCLUDE_SUBSTRINGS[k]])

\* [m for m in l if not any(x in m for x in EXCLUDE_SUBSTRINGS)]
FilterModels(l) == SelectSeq(l, LAMBDA m : ~IsExcluded(m))

\* "." in s
HasDot(s) == StrContains(Chars[s], <<".">>)

\* Index of the first "." of the characters cs.
FirstDot(cs) == CHOOSE i \in 1..Len(cs) : cs[i] = "." /\ \A j \in 1..(i - 1) : cs[j] # "."

\* Index of the last "." of the characters cs.
LastDot(cs) == CHOOSE i \in 1..Len(cs) : cs[i] = "." /\ \A j \in (i + 1)..Len(cs) : cs[j] # "."

\* Faulty variant of SplitAfterFirstDot: s.rsplit(".", 1)[1], the text after
\* the last ".".
SplitAfterLastDot(s) == Str(SubSeq(Chars[s], LastDot(Chars[s]) + 1, Len(Chars[s])))

\* s.split(".", 1)[1]
SplitAfterFirstDot(s) == Str(SubSeq(Chars[s], FirstDot(Chars[s]) + 1, Len(Chars[s])))

\* ", ".join(l): the characters of the joined text.
RECURSIVE Join(_)
Join(l) ==
    IF l = <<>> THEN <<>>
    ELSE IF Len(l) = 1 THEN Chars[l[1]]
    ELSE Chars[l[1]] \o <<",", " ">> \o Join(Tail(l))

\* ------------------------------------------------------------------------
\* Request bodies and network outcomes
\* ------------------------------------------------------------------------
Messages == <<"Hello from demo!">>

\* Bodies a host may pass: "model" and "stream" each present or absent.
Bodies ==
    { [model |-> m, stream |-> s, messages |-> Messages] : m \in BodyModels, s \in StreamValues }
    \cup { [model |-> m, messages |-> Messages] : m \in BodyModels }
    \cup { [stream |-> s, messages |-> Messages] : s \in StreamValues }
    \cup { [messages |-> Messages] }

\* demo_request of the self-test block.
demo_request == [model |-> "groq_new.moonshotai/kimi-k2-instruct", stream |-> PyFalse, messages |-> Messages]

RECURSIVE SeqsUpTo(_, _)
SeqsUpTo(S, n) ==
    IF n = 0 THEN {<<>>}
    ELSE SeqsUpTo(S, n - 1) \cup { Append(l, x) : l \in SeqsUpTo(S, n - 1), x \in S }

\* What session.get(".../models") and the parsing of its body can do: answer
\* 2xx with a body whose "data" array lists ids (a body without "data"
\* reads as an empty array: .get("data", [])), or fail in one of the ways the
\* try block of _fetch_models_once covers: the transport, raise_for_status,
\* response.json(), m["id"].
GetFailures == {"ConnectionError", "Timeout", "HTTPError", "JSONDecodeError", "KeyError"}

GetOutcomes ==
    { [kind |-> "ok", data |-> d] : d \in SeqsUpTo(RemoteIds, MaxRemote) }
    \cup { [kind |-> k, data |-> <<>>] : k \in GetFailures }

\* JSON documents a 2xx response may carry, e.g. {"id": "x"}.
NoDoc == [id |-> ""]

Docs == { [id |-> "x"], [id |-> "y"] }

\* What session.post(".../chat/completions") can do: raise (exc), or answer
\* with a status; the response body may be valid JSON (doc) or not, and
\* reading it off the connection may succeed or fail.
PostOutcomes ==
    { [exc |-> e, status |-> 0, jsonOk |-> FALSE, doc |-> NoDoc, readOk |-> FALSE] :
          e \in {"ConnectionError", "Timeout"} }
    \cup { [exc |-> "none", status |-> 200, jsonOk |-> TRUE, doc |-> d, readOk |-> TRUE] :
          d \in Docs }
    \cup { [exc |-> "none", status |-> 200, jsonOk |-> FALSE, doc |-> NoDoc, readOk |-> TRUE] }
    \cup { [exc |-> "none", status |-> st, jsonOk |-> FALSE, doc |-> NoDoc, readOk |-> r] :
          st \in {404, 500}, r \in BOOLEAN }

\* No POST was sent.
NoPost == [exc |-> "none", status |-> 0, jsonOk |-> FALSE, doc |-> NoDoc, readOk |-> FALSE]

\* ------------------------------------------------------------------------
\* Results of pipes() and pipe()
\* ------------------------------------------------------------------------
NoResult ==
    [kind |-> "none", type |-> "none", status |-> 0, hint |-> FALSE,
     exc |-> "", model |-> "", valid |-> <<>>, models |-> <<>>, json |-> NoDoc]

\* "Error: request body must contain 'model' and 'stream'."
ValidationError == [NoResult EXCEPT !.kind = "ValidationError", !.type = "str"]

\* "Error: GROQ_API_KEY environment variable not set."
ConfigurationError == [NoResult EXCEPT !.kind = "ConfigurationError", !.type = "str"]

\* "Error: model '<model_name>' is not supported.\nValid models: <joined>":
\* the two values the f-string is built from; ValidModelsText renders the
\* second.
UnsupportedModelError(model_name, allowed_models) ==
    [NoResult EXCEPT !.kind = "UnsupportedModelError", !.type = "str",
                     !.model = model_name, !.valid = allowed_models]

\* f"Valid models: {', '.join(allowed_models)}", after the colon.
ValidModelsText(result) == Join(result.valid)

\* "HTTP <status> calling <url>: ..." plus the 404 hint.
UpstreamHTTPError(status) ==
    [NoResult EXCEPT !.kind = "UpstreamHTTPError", !.type = "str",
                     !.status = status, !.hint = (status = 404)]

\* "Unhandled error: <exc>"
UnhandledError(exc) ==
    [NoResult EXCEPT !.kind = "UnhandledError", !.type = "str", !.exc = exc]

\* response.json(): the parsed body.
JsonResult(doc) == [NoResult EXCEPT !.kind = "json", !.type = "dict", !.json = doc]

\* response.iter_lines(): a generator, nothing read yet.
IterLines == [NoResult EXCEPT !.kind = "iter_lines", !.type = "iterator"]

\* An exception that leaves pipe() instead of a return value.
Raised(exc) == [NoResult EXCEPT !.kind = "exception", !.type = "raise", !.exc = exc]

\* [{"id": m, "name": m} for m in ...]
ModelEntries(l) ==
    [NoResult EXCEPT !.kind = "models", !.type = "list",
                     !.models = [i \in 1..Len(l) |-> [id |-> l[i], name |-> l[i]]]]

\* ------------------------------------------------------------------------
\* State
\* ------------------------------------------------------------------------
VARIABLES
    API_KEY,        \* self.valves.API_KEY: "" when GROQ_API_KEY is unset
    _model_cache,   \* self._model_cache
    body,           \* the request dict the host holds (pipe() mutates it)
    stripped,       \* history: the last pipe() call on this dict cut a prefix off
    getCount,       \* history: GET /models requests issued so far
    last,           \* history: what the most recent pipes()/pipe() call did
    pc,             \* per thread: position inside _fetch_models_once
    local,          \* per thread: the list built by the comprehension
    fetched,        \* per thread: how that thread's GET /models went
    returned        \* per thread: the value _fetch_models_once returned

vars == <<API_KEY, _model_cache, body, stripped, getCount, last, pc, local, fetched, returned>>

seqVars == <<body, stripped, last>>

threadVars == <<pc, local, fetched, returned>>

Threads == {"t1", "t2"}

ApiKeys == {"", "gsk_1"}

NoGet == [kind |-> "none", data |-> <<>>]

NoBody == [messages |-> <<>>]

NoCall ==
    [op |-> "none", before |-> NoBody, reused |-> FALSE, strippedBefore |-> FALSE,
     cacheBefore |-> None,
     gets |-> 0, posts |-> 0, get |-> NoGet, post |-> NoPost,
     postStream |-> FALSE, sent |-> NoBody, checked |-> "", result |-> NoResult]

\* Pipe.__init__, followed by the construction of a first request dict.
Init ==
    /\ API_KEY \in ApiKeys
    /\ _model_cache = None
    /\ body = demo_request
    /\ stripped = FALSE
    /\ getCount = 0
    /\ last = NoCall
    /\ pc = [t \in Threads |-> "idle"]
    /\ local = [t \in Threads |-> <<>>]
    /\ fetched = [t \in Threads |-> "none"]
    /\ returned = [t \in Threads |-> None]

\* ------------------------------------------------------------------------
\* _fetch_models_once
\* ------------------------------------------------------------------------
\* Faulty variant of CacheHit: "if self._model_cache:", which takes a cached empty
\* list for an unpopulated cache.
CacheHitTruthy(cache) == ~cache.isNone /\ cache.value # <<>>

\* if self._model_cache is not None
CacheHit(cache) == ~cache.isNone

\* The try block: ids of "data" in response order, filtered.
FetchedModels(go) == FilterModels(go.data)

\* The except block: the hard-coded list, filtered.
FallbackModels == FilterModels(_hardcoded_models)

\* Faulty variant of ResolvedModels: a malformed body is read as an empty "data"
\* array instead of taking the except block.
ResolvedModelsMalformedAsEmpty(go) ==
    IF go.kind \in {"ok", "JSONDecodeError", "KeyError"} THEN FetchedModels(go)
    ELSE FallbackModels

\* try/except Exception: every failure of the fetch takes the except block.
ResolvedModels(go) == IF go.kind = "ok" THEN FetchedModels(go) ELSE FallbackModels

\* One uninterrupted call: the cache after it, the GETs issued, the return value.
_fetch_models_once(cache, go) ==
    IF CacheHit(cache)
    THEN [cache |-> cache, gets |-> 0, ret |-> cache.value]
    ELSE [cache |-> Some(ResolvedModels(go)), gets |-> 1, ret |-> ResolvedModels(go)]

\* ------------------------------------------------------------------------
\* pipe
\* ------------------------------------------------------------------------
\* Faulty variant of MissingKeys: only "model" is looked for.
MissingKeysModelOnly(b) == "model" \notin DOMAIN b

\* "model" not in body or "stream" not in body
MissingKeys(b) == "model" \notin DOMAIN b \/ "stream" \notin DOMAIN b

\* Faulty variant of MissingCredential: the credential check is skipped.
MissingCredentialNever(key) == FALSE

\* not self.valves.API_KEY
MissingCredential(key) == key = ""

\* if "." in body["model"]: body["model"] = body["model"].split(".", 1)[1]
StripPrefix(b) ==
    IF HasDot(b.model) THEN [b EXCEPT !.model = SplitAfterFirstDot(b.model)] ELSE b

\* Faulty variant of NotAllowed: the membership test is skipped.
NotAllowedNever(model_name, allowed_models) == FALSE

\* model_name not in allowed_models
NotAllowed(model_name, allowed_models) == model_name \notin Range(allowed_models)

\* stream=bool(body["stream"])
StreamFlag(b) == bool(b.stream)

\* session.post raises: a transport error, or (stream=False) a failure to
\* read the body, which requests reads before post returns.
PostRaises(streaming, po) == po.exc # "none" \/ (~streaming /\ ~po.readOk)

\* The except HTTPError handler: it builds the message from response.text,
\* which with stream=True reads the body off the connection inside the
\* handler, where neither except clause applies.
HTTPErrorHandler(streaming, po) ==
    IF streaming /\ ~po.readOk THEN Raised("ConnectionError")
    ELSE UpstreamHTTPError(po.status)

\* Faulty variant of SuccessResult: "if body['stream'] is True".
SuccessResultIsTrue(b, po) ==
    IF b.stream = PyTrue THEN IterLines
    ELSE IF po.jsonOk THEN JsonResult(po.doc)
    ELSE UnhandledError("JSONDecodeError")

\* return response.iter_lines() if body["stream"] else response.json()
SuccessResult(b, po) ==
    IF bool(b.stream) THEN IterLines
    ELSE IF po.jsonOk THEN JsonResult(po.doc)
    ELSE UnhandledError("JSONDecodeError")

\* The try statement around session.post.
PerformRequest(b, po) ==
    IF "stream" \notin DOMAIN b
    THEN [posts |-> 0, post |-> NoPost, postStream |-> FALSE, sent |-> NoBody,
          result |-> UnhandledError("KeyError")]
    ELSE LET streaming == StreamFlag(b)
             result == IF PostRaises(streaming, po)
                       THEN UnhandledError(IF po.exc # "none" THEN po.exc
                                           ELSE "ConnectionError")
                       ELSE IF po.status >= 400
                       THEN HTTPErrorHandler(streaming, po)
                       ELSE SuccessResult(b, po)
         IN  [posts |-> 1, post |-> po, postStream |-> streaming, sent |-> b,
              result |-> result]

\* What a call ends with when no request was made.
Early(b, cache, result) ==
    [body |-> b, cache |-> cache, gets |-> 0, get |-> NoGet, posts |-> 0,
     post |-> NoPost, postStream |-> FALSE, sent |-> NoBody, checked |-> "",
     stripped |-> FALSE, result |-> result]

\* pipe(body): the dict, the cache and the requests after one call.
pipe(b, key, cache, go, po) ==
    IF MissingKeys(b) THEN Early(b, cache, ValidationError)
    ELSE IF MissingCredential(key) THEN Early(b, cache, ConfigurationError)
    ELSE IF "model" \notin DOMAIN b THEN Early(b, cache, Raised("KeyError"))
    ELSE LET b1 == StripPrefix(b)
             model_name == b1.model
             f == _fetch_models_once(cache, go)
             allowed_models == f.ret
             req == IF NotAllowed(model_name, allowed_models)
                    THEN [posts |-> 0, post |-> NoPost, postStream |-> FALSE,
                          sent |-> NoBody,
                          result |-> UnsupportedModelError(model_name, allowed_models)]
                    ELSE PerformRequest(b1, po)
         IN  [body |-> b1, cache |-> f.cache, gets |-> f.gets,
              get |-> IF f.gets = 1 THEN go ELSE NoGet,
              posts |-> req.posts, post |-> req.post, postStream |-> req.postStream,
              sent |-> req.sent, checked |-> model_name,
              stripped |-> (b1 # b), result |-> req.result]

\* ------------------------------------------------------------------------
\* Sequential use: each call runs to completion before the next
\* ------------------------------------------------------------------------
\* The outcome of a request that is never sent cannot be observed: it is
\* fixed to NoGet/NoPost instead of being enumerated.
GetChoices(cache) == IF CacheHit(cache) THEN {NoGet} ELSE GetOutcomes

PostChoices(b, go) ==
    IF pipe(b, API_KEY, _model_cache, go, NoPost).posts = 0 THEN {NoPost} ELSE PostOutcomes

\* r is what the one call pipe(b) does under the outcomes go and po.
Call(b, reused) ==
    \E go \in GetChoices(_model_cache) :
        \E po \in PostChoices(b, go) :
            \E r \in {pipe(b, API_KEY, _model_cache, go, po)} :
                /\ getCount + r.gets <= MaxGets
                /\ body' = r.body
                /\ stripped' = r.stripped
                /\ _model_cache' = r.cache
                /\ getCount' = getCount + r.gets
                /\ last' = [op |-> "pipe", before |-> b, reused |-> reused,
                            strippedBefore |-> (reused /\ stripped),
                            cacheBefore |-> _model_cache, gets |-> r.gets,
                            posts |-> r.posts, get |-> r.get, post |-> r.post,
                            postStream |-> r.postStream, sent |-> r.sent,
                            checked |-> r.checked, result |-> r.result]
                /\ UNCHANGED <<API_KEY, threadVars>>

\* pipe() on a dict the host has just built.
PipeFresh == \E b \in Bodies : Call(b, FALSE)

\* pipe() on the dict the host already holds.
PipeSame == Call(body, TRUE)

\* pipes(): f is what its one call of _fetch_models_once does.
Pipes ==
    \E go \in GetChoices(_model_cache) :
        \E f \in {_fetch_models_once(_model_cache, go)} :
            /\ getCount + f.gets <= MaxGets
            /\ _model_cache' = f.cache
            /\ getCount' = getCount + f.gets
            /\ last' = [NoCall EXCEPT !.op = "pipes", !.before = body,
                                      !.cacheBefore = _model_cache, !.gets = f.gets,
                                      !.get = IF f.gets = 1 THEN go ELSE NoGet,
                                      !.result = ModelEntries(f.ret)]
            /\ UNCHANGED <<API_KEY, body, stripped, threadVars>>

Next == Pipes \/ PipeFresh \/ PipeSame

Spec == Init /\ [][Next]_vars

\* ------------------------------------------------------------------------
\* Concurrent use: two host threads call pipes() on the shared adapter and
\* run _fetch_models_once statement by statement (there is no lock)
\* ------------------------------------------------------------------------
\* if self._model_cache is not None: return self._model_cache
T_Check(t) ==
    /\ pc[t] = "idle"
    /\ IF CacheHit(_model_cache)
       THEN /\ returned' = [returned EXCEPT ![t] = Some(_model_cache.value)]
            /\ pc' = [pc EXCEPT ![t] = "done"]
       ELSE /\ pc' = [pc EXCEPT ![t] = "get"]
            /\ UNCHANGED returned
    /\ UNCHANGED <<API_KEY, _model_cache, getCount, local, fetched, seqVars>>

\* session.get, raise_for_status, response.json() and the comprehension of
\* the try block, or the comprehension of the except block: the list is
\* built before it is assigned.
T_Get(t) ==
    /\ pc[t] = "get"
    /\ getCount < MaxGets
    /\ \E go \in GetOutcomes :
           /\ local' = [local EXCEPT ![t] = ResolvedModels(go)]
           /\ fetched' = [fetched EXCEPT ![t] = go.kind]
    /\ getCount' = getCount + 1
    /\ pc' = [pc EXCEPT ![t] = "store"]
    /\ UNCHANGED <<API_KEY, _model_cache, returned, seqVars>>

\* self._model_cache = [...]
T_Store(t) ==
    /\ pc[t] = "store"
    /\ _model_cache' = Some(local[t])
    /\ pc' = [pc EXCEPT ![t] = "return"]
    /\ UNCHANGED <<API_KEY, getCount, local, fetched, returned, seqVars>>

\* return self._model_cache
T_Return(t) ==
    /\ pc[t] = "return"
    /\ returned' = [returned EXCEPT ![t] = Some(_model_cache.value)]
    /\ pc' = [pc EXCEPT ![t] = "done"]
    /\ UNCHANGED <<API_KEY, _model_cache, getCount, local, fetched, seqVars>>

NextConc == \E t \in Threads : T_Check(t) \/ T_Get(t) \/ T_Store(t) \/ T_Return(t)

SpecConc == Init /\ [][NextConc]_vars

\* ------------------------------------------------------------------------
\* Properties
\* ------------------------------------------------------------------------
\* The most recent call was pipe() on a body holding both required keys.
ValidPipeCall == last.op = "pipe" /\ {"model", "stream"} \subseteq DOMAIN last.before

\* Position in l's comma-joined text at which its i-th id starts.
RECURSIVE Offset(_, _)
Offset(l, i) == IF i = 1 THEN 1 ELSE Offset(l, i - 1) + Len(Chars[l[i - 1]]) + 2

\* text lists exactly the ids of l, in order, separated by ", ".
EnumeratesInOrder(text, l) ==
    /\ Len(text) = IF l = <<>> THEN 0 ELSE Offset(l, Len(l)) + Len(Chars[l[Len(l)]]) - 1
    /\ \A i \in 1..Len(l) :
           SubSeq(text, Offset(l, i), Offset(l, i) + Len(Chars[l[i]]) - 1) = Chars[l[i]]
    /\ \A i \in 1..(Len(l) - 1) :
           SubSeq(text, Offset(l, i + 1) - 2, Offset(l, i + 1) - 1) = <<",", " ">>

\* m holds "tts" or "whisper" as a substring.
ExcludedId(m) ==
    LET cs == Chars[m]
    IN  \E i \in 1..Len(cs) :
            \/ i + 2 <= Len(cs) /\ SubSeq(cs, i, i + 2) = <<"t","t","s">>
            \/ i + 6 <= Len(cs) /\ SubSeq(cs, i, i + 6) = <<"w","h","i","s","p","e","r">>

\* Positions of the hard-coded list whose id is not excluded.
KeptFallback == {i \in 1..Len(_hardcoded_models) : ~ExcludedId(_hardcoded_models[i])}

\* l is the hard-coded list with every excluded id removed and the order of
\* the rest kept.
IsFilteredFallback(l) ==
    /\ Len(l) = Cardinality(KeptFallback)
    /\ \A k \in 1..Len(l) :
           \E i \in KeptFallback :
               /\ Cardinality({j \in KeptFallback : j <= i}) = k
               /\ l[k] = _hardcoded_models[i]

\* C1: over sequential pipes()/pipe() calls at most one GET /models is ever
\* issued; once the cache is populated (by a fetch, even one yielding an
\* empty list, or by the fallback) no later call issues a GET and the cached
\* list is never replaced.
C1_AtMostOneGet ==
    /\ [](getCount <= 1)
    /\ [][~_model_cache.isNone => (_model_cache' = _model_cache /\ getCount' = getCount)]_vars

\* A call made after the cache was populated with an empty list issued no GET.
C1_Witness ==
    /\ last.op \in {"pipes", "pipe"}
    /\ ~last.cacheBefore.isNone
    /\ last.cacheBefore.value = <<>>
    /\ last.gets = 0
    /\ getCount = 1

\* C2: for a body lacking "model" or "stream", pipe() returns the "must
\* contain" string, issues neither GET /models nor POST /chat/completions,
\* and leaves the model cache and the body as they were, whatever the
\* credential and the cache.
C2_MissingKeysNoNetwork ==
    (last.op = "pipe" /\ ~({"model", "stream"} \subseteq DOMAIN last.before)) =>
        /\ last.result.kind = "ValidationError"
        /\ last.result.type = "str"
        /\ last.gets = 0
        /\ last.posts = 0
        /\ _model_cache = last.cacheBefore
        /\ body = last.before

\* A body with a prefixed model and no "stream", a credential set and the
\* cache still unpopulated.
C2_Witness ==
    /\ last.op = "pipe"
    /\ DOMAIN last.before = {"model", "messages"}
    /\ HasDot(last.before.model)
    /\ API_KEY # ""
    /\ last.cacheBefore.isNone
    /\ last.result.kind = "ValidationError"

\* C3: for a body holding both keys, when the API key is empty pipe()
\* returns the missing-credential string and issues no request; the cache
\* is left as it was (unpopulated if it was) and body["model"] is not
\* rewritten.
C3_NoCredentialNoNetwork ==
    (ValidPipeCall /\ API_KEY = "") =>
        /\ last.result.kind = "ConfigurationError"
        /\ last.result.type = "str"
        /\ last.gets = 0
        /\ last.posts = 0
        /\ _model_cache = last.cacheBefore
        /\ body = last.before

\* A prefixed model, no credential, the cache unpopulated before and after.
C3_Witness ==
    /\ ValidPipeCall
    /\ API_KEY = ""
    /\ HasDot(last.before.model)
    /\ last.cacheBefore.isNone
    /\ _model_cache.isNone
    /\ last.result.kind = "ConfigurationError"

\* The normalized model of the last call is outside the resolved allow-list.
Rejected ==
    /\ ValidPipeCall
    /\ API_KEY # ""
    /\ ~_model_cache.isNone
    /\ body.model \notin Range(_model_cache.value)

\* C4 (as stated): a model id outside the resolved allow-list is rejected
\* with the "is not supported" string listing the allowed ids in order, and
\* no HTTP request at all is issued during that call.
C4_NoRequestAtAll ==
    Rejected =>
        /\ last.result.kind = "UnsupportedModelError"
        /\ last.result.model = body.model
        /\ EnumeratesInOrder(ValidModelsText(last.result), _model_cache.value)
        /\ last.gets = 0
        /\ last.posts = 0

\* C4 (amended): a model id outside the resolved allow-list is rejected with
\* the "is not supported" string listing the allowed ids in order, and no
\* POST /chat/completions is issued; the call issues the one GET /models
\* that resolves the allow-list exactly when the cache was unpopulated.
C4_NoPostWhenRejected ==
    Rejected =>
        /\ last.result.kind = "UnsupportedModelError"
        /\ last.result.type = "str"
        /\ last.result.model = body.model
        /\ EnumeratesInOrder(ValidModelsText(last.result), _model_cache.value)
        /\ last.posts = 0
        /\ last.gets = IF last.cacheBefore.isNone THEN 1 ELSE 0

\* A rejection by a freshly fetched allow-list of two ids.
C4_Witness ==
    /\ Rejected
    /\ last.gets = 1
    /\ last.get.kind = "ok"
    /\ Len(_model_cache.value) = 2
    /\ last.result.kind = "UnsupportedModelError"

\* C5: for a body holding both keys and a non-empty API key, body["model"]
\* becomes the text after its first "." when it has one and stays as it is
\* otherwise; that value is the one checked against the allow-list and the
\* one sent in the POST body.
C5_SplitOnFirstDot ==
    (ValidPipeCall /\ API_KEY # "") =>
        LET m == Chars[last.before.model]
            n == Chars[body.model]
        IN  /\ (\A i \in 1..Len(m) : m[i] # ".") => n = m
            /\ \A i \in 1..Len(m) :
                   (m[i] = "." /\ \A j \in 1..(i - 1) : m[j] # ".") =>
                       /\ Len(n) = Len(m) - i
                       /\ \A k \in 1..Len(n) : n[k] = m[i + k]
            /\ last.checked = body.model
            /\ last.posts = 1 => last.sent.model = body.model

\* "a.b.c" was cut to "b.c", found in the allow-list and posted.
C5_Witness ==
    /\ ValidPipeCall
    /\ last.before.model = "a.b.c"
    /\ body.model = "b.c"
    /\ last.checked = "b.c"
    /\ last.posts = 1
    /\ last.sent.model = "b.c"

\* C6: when the GET /models fetch fails in any way (transport error,
\* timeout, error status, malformed body) the hard-coded list without the
\* ids holding "tts" or "whisper" is cached and returned, and pipes() shows
\* no error.
C6_FallbackOnFailure ==
    (last.gets = 1 /\ last.get.kind \in GetFailures) =>
        /\ ~_model_cache.isNone
        /\ IsFilteredFallback(_model_cache.value)
        /\ last.op = "pipes" =>
               /\ last.result.type = "list"
               /\ Len(last.result.models) = Len(_model_cache.value)
               /\ \A i \in 1..Len(_model_cache.value) :
                      last.result.models[i] =
                          [id |-> _model_cache.value[i], name |-> _model_cache.value[i]]
        /\ last.result.kind = "UnsupportedModelError" =>
               EnumeratesInOrder(ValidModelsText(last.result), _hardcoded_models)

\* pipes() after a response whose body was not JSON.
C6_Witness ==
    /\ last.op = "pipes"
    /\ last.gets = 1
    /\ last.get.kind = "JSONDecodeError"
    /\ _model_cache = Some(_hardcoded_models)
    /\ Len(last.result.models) = 19

\* C7: pipe() always ends by returning a value: a string for every failure,
\* the parsed body or the line iterator otherwise; no exception leaves it.
C7_NeverThrows ==
    last.op = "pipe" =>
        /\ last.result.type \in {"str", "dict", "iterator"}
        /\ last.result.kind \notin {"json", "iter_lines"} => last.result.type = "str"

\* C8 (as stated): when the POST answers 2xx, a truthy body["stream"] gives
\* the lazy line iterator of a streaming request and a falsy one gives the
\* parsed JSON body of a non-streaming request; one POST is issued.
C8_ShapeByStreamOnly ==
    (ValidPipeCall /\ last.posts = 1 /\ last.post.exc = "none" /\ last.post.status = 200) =>
        /\ body.stream \in {PyTrue, PyOne} =>
               last.result.kind = "iter_lines" /\ last.postStream = TRUE
        /\ body.stream \in {PyFalse, PyZero} =>
               /\ last.result.kind = "json"
               /\ last.result.json = last.post.doc
               /\ last.postStream = FALSE

\* C8 (amended): when the POST answers 2xx, a truthy body["stream"] gives
\* the lazy line iterator of a streaming request; a falsy one gives, from a
\* non-streaming request, the parsed JSON body when the response body is
\* valid JSON and the "Unhandled error" string when it is not; one POST is
\* issued.
C8_ShapeByStreamAndJson ==
    (ValidPipeCall /\ last.post.exc = "none" /\ last.post.status = 200) =>
        /\ last.posts = 1
        /\ body.stream \in {PyTrue, PyOne} =>
               /\ last.result.kind = "iter_lines"
               /\ last.result.type = "iterator"
               /\ last.postStream = TRUE
        /\ body.stream \in {PyFalse, PyZero} =>
               /\ last.postStream = FALSE
               /\ last.post.jsonOk =>
                      /\ last.result.kind = "json"
                      /\ last.result.type = "dict"
                      /\ last.result.json = last.post.doc
               /\ ~last.post.jsonOk =>
                      /\ last.result.kind = "UnhandledError"
                      /\ last.result.exc = "JSONDecodeError"

\* stream = 1 (truthy, not a bool) answered 200: the iterator came back.
C8_Witness ==
    /\ ValidPipeCall
    /\ last.post.status = 200
    /\ body.stream = PyOne
    /\ last.postStream = TRUE
    /\ last.result.kind = "iter_lines"

\* C9: when two threads race through the first model-list resolution, both
\* obtain the same list, that list is the one the cache holds afterwards,
\* and the cache only ever holds a complete filtered list.
C9_RaceIsBenign ==
    /\ ~_model_cache.isNone => \A i \in 1..Len(_model_cache.value) :
                                   ~ExcludedId(_model_cache.value[i])
    /\ (\A t \in Threads : pc[t] = "done" /\ fetched[t] # "none") =>
           /\ returned["t1"] = returned["t2"]
           /\ returned["t1"] = _model_cache

\* C10: once a pipe() call has passed validation and cut the prefix off a
\* body, passing the same dict again leaves body["model"] as it is, and the
\* second call checks the id the first one checked.
C10_NormalizedOnce ==
    (last.op = "pipe" /\ last.reused /\ last.strippedBefore) =>
        /\ body.model = last.before.model
        /\ last.checked = last.before.model
====
